---- MODULE Spec2Model ----
(***************************************************************************)
(* Motion tracking service of truelight (mobile/services, part_003):       *)
(* the module-level tracker state (objectHistory, nextTrackingId,          *)
(* lastFrameTimestamp) and its three exported operations                   *)
(* updateMotionTracking, resetMotionTracking and getAllTrackedObjects.     *)
(*                                                                         *)
(* Numbers.  Coordinates, sizes and timestamps are integers.  A quotient   *)
(* the code computes in floating point (an IoU, a velocity component) is   *)
(* kept as an exact fraction [n, d]; the fraction 0/0 is JavaScript's NaN, *)
(* for which every comparison is false.  For the small integers of the     *)
(* model the double nearest to a fraction orders exactly as the fraction   *)
(* does, and the literal 0.3 is the double nearest to 3/10.                *)
(* A trackingId `track-${k}` is modelled by the number k.                  *)
(***************************************************************************)
EXTENDS Integers, Sequences, FiniteSets, TLC

VARIABLES
    objectHistory,       \* Map<string, ObjectHistory> in insertion order: a sequence of tracks
    nextTrackingId,      \* let nextTrackingId = 1
    lastFrameTimestamp,  \* let lastFrameTimestamp = 0
    call,                \* the last call made: operation, arguments, effective timestamp
    result,              \* what the last call returned
    before,              \* the tracker state, the call and the logs at entry of the last call
    idLog,               \* trackingIds created since construction or the last reset, in creation order
    issued,              \* every (trackingId, class, bbox) reported by an update since construction
    retired,             \* trackingIds of tracks an update found older than MAX_FRAME_GAP, since the last reset
    frames,              \* the update calls since construction or the last reset, in order:
                         \* effective timestamp, number of detections, frame number given or not
    calls                \* number of calls made since the initial state

vars == <<objectHistory, nextTrackingId, lastFrameTimestamp, call, result, before, idLog, issued,
          retired, frames, calls>>

(***************************************************************************)
(* Configuration (part_003 lines 27-30).                                   *)
(***************************************************************************)
MAX_HISTORY_LENGTH == 10
MOVEMENT_THRESHOLD == 5
MAX_FRAME_GAP == 3
\* mutant: a threshold of 0.5
IOU_THRESHOLD_Half == [n |-> 1, d |-> 2]
IOU_THRESHOLD == [n |-> 3, d |-> 10]

(***************************************************************************)
(* Bounds of the model.                                                    *)
(***************************************************************************)
MaxCalls == 2        \* calls made after the initial state
MaxDets == 2         \* detections per update call
MaxSeen == 1         \* frames the tracker has seen in an initial state of Spec and SpecMove
MaxWarm == 10        \* frames the tracker has seen in an initial state of SpecLong
MaxMoved == 4        \* frames the tracker has seen in an initial state of SpecMotion
MaxStill == 4        \* frames the tracker has seen in an initial state of SpecJump
MaxCentre == 2       \* largest centre coordinate of a box passed to calculateIoU in SpecIoU
MaxSide == 2         \* largest width and height of such a box

(***************************************************************************)
(* Arithmetic helpers.                                                     *)
(***************************************************************************)
Max(a, b) == IF a >= b THEN a ELSE b
Min(a, b) == IF a <= b THEN a ELSE b
Abs(a) == IF a < 0 THEN -a ELSE a

RECURSIVE Gcd(_, _)
Gcd(a, b) == IF b = 0 THEN a ELSE Gcd(b, a % b)

\* The quotient num / den of two numbers (den # 0), in lowest terms with d > 0.
Quotient(num, den) ==
    LET g == Gcd(Abs(num), Abs(den))
        s == IF den < 0 THEN -1 ELSE 1
    IN [n |-> (s * num) \div g, d |-> (s * den) \div g]

\* a > b on doubles: false when either side is NaN (d = 0).
Greater_NaNWins(a, b) == a.d = 0 \/ (b.d # 0 /\ a.n * b.d > b.n * a.d)

Greater_OrEqual(a, b) == a.d # 0 /\ b.d # 0 /\ a.n * b.d >= b.n * a.d
Greater(a, b) == a.d # 0 /\ b.d # 0 /\ a.n * b.d > b.n * a.d

\* The one element of a set of one element.
The(S) == CHOOSE x \in S : TRUE

RECURSIVE SqrtSearch(_, _, _)
SqrtSearch(n, lo, hi) ==
    IF lo >= hi THEN lo
    ELSE LET mid == (lo + hi + 1) \div 2
         IN IF mid * mid <= n THEN SqrtSearch(n, mid, hi) ELSE SqrtSearch(n, lo, mid - 1)

\* Math.sqrt(n) in hundredths, rounded down; exact when n is a perfect square.
SqrtCenti(n) == SqrtSearch(n * 10000, 0, Min(100 * n + 100, 46000))

(***************************************************************************)
(* calculateIoU (lines 40-71).  Corners and areas are kept doubled and     *)
(* quadrupled so that width / 2 stays an integer; the quotient is the same.*)
(***************************************************************************)
calculateIoU_NoEarlyReturn(box1, box2) ==
    LET intersectLeft == Max(2 * box1.x - box1.width, 2 * box2.x - box2.width)
        intersectRight == Min(2 * box1.x + box1.width, 2 * box2.x + box2.width)
        intersectTop == Max(2 * box1.y - box1.height, 2 * box2.y - box2.height)
        intersectBottom == Min(2 * box1.y + box1.height, 2 * box2.y + box2.height)
        intersectArea == (intersectRight - intersectLeft) * (intersectBottom - intersectTop)
        unionArea == 4 * box1.width * box1.height + 4 * box2.width * box2.height
                     - intersectArea
    IN [n |-> intersectArea, d |-> unionArea]
calculateIoU(box1, box2) ==
    LET box1Left == 2 * box1.x - box1.width
        box1Right == 2 * box1.x + box1.width
        box1Top == 2 * box1.y - box1.height
        box1Bottom == 2 * box1.y + box1.height
        box2Left == 2 * box2.x - box2.width
        box2Right == 2 * box2.x + box2.width
        box2Top == 2 * box2.y - box2.height
        box2Bottom == 2 * box2.y + box2.height
        intersectLeft == Max(box1Left, box2Left)
        intersectRight == Min(box1Right, box2Right)
        intersectTop == Max(box1Top, box2Top)
        intersectBottom == Min(box1Bottom, box2Bottom)
        intersectArea == (intersectRight - intersectLeft) * (intersectBottom - intersectTop)
        box1Area == 4 * box1.width * box1.height
        box2Area == 4 * box2.width * box2.height
        unionArea == box1Area + box2Area - intersectArea
    IN IF intersectRight < intersectLeft \/ intersectBottom < intersectTop
       THEN [n |-> 0, d |-> 1]
       ELSE [n |-> intersectArea, d |-> unionArea]

(***************************************************************************)
(* The Map objectHistory: a sequence of entries [key, value] in insertion  *)
(* order, one entry per key.                                               *)
(***************************************************************************)
Keys(hist) == {hist[i].key : i \in 1..Len(hist)}
IndexOfKey(hist, key) == CHOOSE i \in 1..Len(hist) : hist[i].key = key
ValueOf(hist, key) == hist[IndexOfKey(hist, key)].value

\* Map.set: a new key is appended, an existing key keeps its place.
MapSet(hist, key, value) ==
    IF key \in Keys(hist)
    THEN [hist EXCEPT ![IndexOfKey(hist, key)] = [key |-> key, value |-> value]]
    ELSE Append(hist, [key |-> key, value |-> value])

\* Array.from(objectHistory.values())
MapValues(hist) == [i \in 1..Len(hist) |-> hist[i].value]

(***************************************************************************)
(* findBestMatch (lines 76-105).  The result is the index of the matched   *)
(* entry of the map (the code returns a reference to its value), 0 = null. *)
(***************************************************************************)
\* mutant: the class filter left out
SameClass_Any(history, detection) == TRUE

\* line 85: must be same class
SameClass(history, detection) == history.class = detection.class

\* lines 88-89: must have been seen recently
SeenRecently(history, timestamp) ==
    LET frameGap == timestamp - history.lastSeen
    IN ~(frameGap > MAX_FRAME_GAP)

\* lines 92-96: IoU of the detection's box and a box of the same size at the last position
MatchIoU(history, detection) ==
    LET lastPos == history.positions[Len(history.positions)]
    IN calculateIoU(detection.bbox,
                    [x |-> lastPos.x, y |-> lastPos.y,
                     width |-> detection.bbox.width, height |-> detection.bbox.height])

RECURSIVE BestFrom(_, _, _, _, _, _)
BestFrom(hist, i, detection, timestamp, bestMatch, bestIoU) ==
    IF i > Len(hist) THEN bestMatch
    ELSE LET history == hist[i].value
         IN IF ~SameClass(history, detection)
            THEN BestFrom(hist, i + 1, detection, timestamp, bestMatch, bestIoU)
            ELSE IF ~SeenRecently(history, timestamp)
            THEN BestFrom(hist, i + 1, detection, timestamp, bestMatch, bestIoU)
            ELSE LET iou == MatchIoU(history, detection)
                 IN IF Greater(iou, bestIoU)
                    THEN BestFrom(hist, i + 1, detection, timestamp, i, iou)
                    ELSE BestFrom(hist, i + 1, detection, timestamp, bestMatch, bestIoU)

findBestMatch(hist, detection, timestamp) ==
    BestFrom(hist, 1, detection, timestamp, 0, IOU_THRESHOLD)

(***************************************************************************)
(* calculateVelocity (lines 110-124).                                      *)
(***************************************************************************)
\* line 118: current.timestamp - previous.timestamp || 1
TimeDiff_AtLeastOne(current, previous) == Max(1, current.timestamp - previous.timestamp)
TimeDiff(current, previous) ==
    IF current.timestamp - previous.timestamp = 0 THEN 1
    ELSE current.timestamp - previous.timestamp

calculateVelocity_FromFirst(positions) ==
    IF Len(positions) < 2
    THEN [x |-> [n |-> 0, d |-> 1], y |-> [n |-> 0, d |-> 1]]
    ELSE LET current == positions[Len(positions)]
             previous == positions[1]
             timeDiff == TimeDiff(current, previous)
         IN [x |-> Quotient(current.x - previous.x, timeDiff),
             y |-> Quotient(current.y - previous.y, timeDiff)]
calculateVelocity(positions) ==
    IF Len(positions) < 2
    THEN [x |-> [n |-> 0, d |-> 1], y |-> [n |-> 0, d |-> 1]]
    ELSE LET current == positions[Len(positions)]
             previous == positions[Len(positions) - 1]
             timeDiff == TimeDiff(current, previous)
         IN [x |-> Quotient(current.x - previous.x, timeDiff),
             y |-> Quotient(current.y - previous.y, timeDiff)]

(***************************************************************************)
(* isObjectMoving (lines 129-146).  Displacements are in hundredths.       *)
(***************************************************************************)
\* positions.slice(-5)
RecentPositions_Six(positions) ==
    IF Len(positions) <= 6 THEN positions
    ELSE SubSeq(positions, Len(positions) - 5, Len(positions))
RecentPositions(positions) ==
    IF Len(positions) <= 5 THEN positions
    ELSE SubSeq(positions, Len(positions) - 4, Len(positions))

RECURSIVE TotalDisplacement(_, _)
TotalDisplacement(recentPositions, i) ==
    IF i > Len(recentPositions) THEN 0
    ELSE LET dx == recentPositions[i].x - recentPositions[i - 1].x
             dy == recentPositions[i].y - recentPositions[i - 1].y
         IN SqrtCenti(dx * dx + dy * dy) + TotalDisplacement(recentPositions, i + 1)

isObjectMoving_FromTwo(positions) ==
    IF Len(positions) < 2 THEN FALSE
    ELSE LET recentPositions == RecentPositions(positions)
             totalDisplacement == TotalDisplacement(recentPositions, 2)
         IN totalDisplacement > 100 * MOVEMENT_THRESHOLD * (Len(recentPositions) - 1)
isObjectMoving_PerPosition(positions) ==
    IF Len(positions) < 3 THEN FALSE
    ELSE LET recentPositions == RecentPositions(positions)
             totalDisplacement == TotalDisplacement(recentPositions, 2)
         IN totalDisplacement > 100 * MOVEMENT_THRESHOLD * Len(recentPositions)
isObjectMoving(positions) ==
    IF Len(positions) < 3 THEN FALSE
    ELSE LET recentPositions == RecentPositions(positions)
             totalDisplacement == TotalDisplacement(recentPositions, 2)
         IN \* avgDisplacement > MOVEMENT_THRESHOLD
            totalDisplacement > 100 * MOVEMENT_THRESHOLD * (Len(recentPositions) - 1)

(***************************************************************************)
(* cleanupOldTracks (lines 151-161).                                       *)
(***************************************************************************)
\* mutant: >= in place of >
IsStale_AtGap(history, currentTimestamp) == currentTimestamp - history.lastSeen >= MAX_FRAME_GAP

\* line 155
IsStale_Late(history, currentTimestamp) == currentTimestamp - history.lastSeen > MAX_FRAME_GAP + 1
IsStale(history, currentTimestamp) == currentTimestamp - history.lastSeen > MAX_FRAME_GAP

\* mutant: nothing is deleted
cleanupOldTracks_KeepAll(hist, currentTimestamp) == hist

cleanupOldTracks_Reversed(hist, currentTimestamp) ==
    LET keysToDelete == {hist[i].key : i \in {j \in 1..Len(hist) : IsStale(hist[j].value, currentTimestamp)}}
        Kept(e) == e.key \notin keysToDelete
        kept == SelectSeq(hist, Kept)
    IN [i \in 1..Len(kept) |-> kept[Len(kept) + 1 - i]]
cleanupOldTracks(hist, currentTimestamp) ==
    LET keysToDelete == {hist[i].key : i \in {j \in 1..Len(hist) : IsStale(hist[j].value, currentTimestamp)}}
        Kept(e) == e.key \notin keysToDelete
    IN SelectSeq(hist, Kept)

(***************************************************************************)
(* updateMotionTracking (lines 167-234): the body of the loop over the     *)
(* detections, on the loop's state [hist, nextId, matchedHistoryIds,       *)
(* trackedObjects]; created lists the trackingIds given out so far.        *)
(***************************************************************************)
\* mutant: the history is never trimmed
PushPosition_NoShift(positions, detection, timestamp) ==
    Append(positions, [x |-> detection.bbox.x, y |-> detection.bbox.y, timestamp |-> timestamp])

\* lines 187-196: push the new position, shift the oldest one out beyond the limit
PushPosition_DropSecond(positions, detection, timestamp) ==
    LET pushed == Append(positions, [x |-> detection.bbox.x, y |-> detection.bbox.y,
                                     timestamp |-> timestamp])
    IN IF Len(pushed) > MAX_HISTORY_LENGTH
       THEN <<pushed[1]>> \o SubSeq(pushed, 3, Len(pushed))
       ELSE pushed
PushPosition(positions, detection, timestamp) ==
    LET pushed == Append(positions, [x |-> detection.bbox.x, y |-> detection.bbox.y,
                                     timestamp |-> timestamp])
    IN IF Len(pushed) > MAX_HISTORY_LENGTH THEN Tail(pushed) ELSE pushed

\* mutant: lastSeen takes the frame count
Tracked_Mixed(detection, isMoving, velocity, trackingId, framesTracked, timestamp) ==
    [class |-> detection.class, bbox |-> detection.bbox, confidence |-> detection.confidence,
     isMoving |-> isMoving, velocity |-> velocity, trackingId |-> trackingId,
     framesTracked |-> framesTracked, lastSeen |-> framesTracked]

\* lines 203-210 and 222-229: {...detection, isMoving, velocity, trackingId, framesTracked, lastSeen}
Tracked(detection, isMoving, velocity, trackingId, framesTracked, timestamp) ==
    [class |-> detection.class, bbox |-> detection.bbox, confidence |-> detection.confidence,
     isMoving |-> isMoving, velocity |-> velocity, trackingId |-> trackingId,
     framesTracked |-> framesTracked, lastSeen |-> timestamp]

\* lines 183-210: update the existing track at index m
UpdateTrack_RefreshAll(st, m, detection, timestamp) ==
    LET match == st.hist[m].value
        positions == PushPosition(match.positions, detection, timestamp)
        updated == [match EXCEPT !.positions = positions, !.lastSeen = timestamp]
        velocity == calculateVelocity(positions)
        isMoving == isObjectMoving(positions)
    IN [hist |-> [k \in 1..Len(st.hist) |->
                    IF k = m THEN [st.hist[k] EXCEPT !.value = updated]
                    ELSE [st.hist[k] EXCEPT !.value.lastSeen = timestamp]],
        nextId |-> st.nextId,
        created |-> st.created,
        matchedHistoryIds |-> st.matchedHistoryIds \cup {match.trackingId},
        trackedObjects |-> Append(st.trackedObjects,
            Tracked(detection, isMoving, velocity, match.trackingId, Len(positions), timestamp))]
UpdateTrack_StaleSeen(st, m, detection, timestamp) ==
    LET match == st.hist[m].value
        positions == PushPosition(match.positions, detection, timestamp)
        updated == [match EXCEPT !.positions = positions]
        velocity == calculateVelocity(positions)
        isMoving == isObjectMoving(positions)
    IN [hist |-> [st.hist EXCEPT ![m].value = updated],
        nextId |-> st.nextId,
        created |-> st.created,
        matchedHistoryIds |-> st.matchedHistoryIds \cup {match.trackingId},
        trackedObjects |-> Append(st.trackedObjects,
            Tracked(detection, isMoving, velocity, match.trackingId, Len(positions), timestamp))]
UpdateTrack(st, m, detection, timestamp) ==
    LET match == st.hist[m].value
        positions == PushPosition(match.positions, detection, timestamp)
        updated == [match EXCEPT !.positions = positions, !.lastSeen = timestamp]
        velocity == calculateVelocity(positions)
        isMoving == isObjectMoving(positions)
    IN [hist |-> [st.hist EXCEPT ![m].value = updated],
        nextId |-> st.nextId,
        created |-> st.created,
        matchedHistoryIds |-> st.matchedHistoryIds \cup {match.trackingId},
        trackedObjects |-> Append(st.trackedObjects,
            Tracked(detection, isMoving, velocity, match.trackingId, Len(positions), timestamp))]

\* mutant: the counter is not incremented
FreshId_NoIncrement(nextId) == [trackingId |-> nextId, nextId |-> nextId]

\* line 213: `track-${nextTrackingId++}`: the id given out and the counter after it
FreshId(nextId) == [trackingId |-> nextId, nextId |-> nextId + 1]

\* lines 211-230: new object, start tracking
StartTrack_Unseen(st, detection, timestamp) ==
    LET fresh == FreshId(st.nextId)
        trackingId == fresh.trackingId
        history == [positions |-> <<[x |-> detection.bbox.x, y |-> detection.bbox.y,
                                     timestamp |-> timestamp]>>,
                    class |-> detection.class,
                    lastSeen |-> 0,
                    trackingId |-> trackingId]
    IN [hist |-> MapSet(st.hist, trackingId, history),
        nextId |-> fresh.nextId,
        created |-> Append(st.created, trackingId),
        matchedHistoryIds |-> st.matchedHistoryIds,
        trackedObjects |-> Append(st.trackedObjects,
            Tracked(detection, FALSE, [x |-> [n |-> 0, d |-> 1], y |-> [n |-> 0, d |-> 1]],
                    trackingId, 1, timestamp))]
StartTrack(st, detection, timestamp) ==
    LET fresh == FreshId(st.nextId)
        trackingId == fresh.trackingId
        history == [positions |-> <<[x |-> detection.bbox.x, y |-> detection.bbox.y,
                                     timestamp |-> timestamp]>>,
                    class |-> detection.class,
                    lastSeen |-> timestamp,
                    trackingId |-> trackingId]
    IN [hist |-> MapSet(st.hist, trackingId, history),
        nextId |-> fresh.nextId,
        created |-> Append(st.created, trackingId),
        matchedHistoryIds |-> st.matchedHistoryIds,
        trackedObjects |-> Append(st.trackedObjects,
            Tracked(detection, FALSE, [x |-> [n |-> 0, d |-> 1], y |-> [n |-> 0, d |-> 1]],
                    trackingId, 1, timestamp))]

\* lines 179-231: one iteration
TrackOne(st, detection, timestamp) ==
    LET match == findBestMatch(st.hist, detection, timestamp)
    IN IF match # 0 THEN UpdateTrack(st, match, detection, timestamp)
       ELSE StartTrack(st, detection, timestamp)

RECURSIVE TrackAll(_, _, _)
TrackAll(st, detections, timestamp) ==
    IF detections = <<>> THEN st
    ELSE TrackAll(TrackOne(st, Head(detections), timestamp), Tail(detections), timestamp)

\* line 171: frameNumber ?? ++lastFrameTimestamp; an omitted frameNumber is <<>>, a given one <<f>>
Timestamp_Falsy(frameNumber, lastTs) ==
    IF frameNumber = <<>> THEN lastTs + 1
    ELSE IF frameNumber[1] = 0 THEN lastTs + 1 ELSE frameNumber[1]
Timestamp(frameNumber, lastTs) == IF frameNumber = <<>> THEN lastTs + 1 ELSE frameNumber[1]
CounterAfter_Always(frameNumber, lastTs) == lastTs + 1
CounterAfter_Never(frameNumber, lastTs) == lastTs
CounterAfter(frameNumber, lastTs) == IF frameNumber = <<>> THEN lastTs + 1 ELSE lastTs

\* lines 171-233: the whole call on the tracker state; the loop starts on the cleaned-up map
RunUpdate_FinalCounts(hist, nextId, detections, timestamp) ==
    The({[done EXCEPT !.trackedObjects =
             [i \in 1..Len(done.trackedObjects) |->
                [done.trackedObjects[i] EXCEPT !.framesTracked =
                    Len(ValueOf(done.hist, done.trackedObjects[i].trackingId).positions)]]]
         : done \in {TrackAll([hist |-> cleanupOldTracks(hist, timestamp), nextId |-> nextId,
                               created |-> <<>>, matchedHistoryIds |-> {},
                               trackedObjects |-> <<>>],
                              detections, timestamp)}})
RunUpdate(hist, nextId, detections, timestamp) ==
    TrackAll([hist |-> cleanupOldTracks(hist, timestamp), nextId |-> nextId, created |-> <<>>,
              matchedHistoryIds |-> {}, trackedObjects |-> <<>>],
             detections, timestamp)

(***************************************************************************)
(* The calls as functions of the whole state w, a record with one field    *)
(* per variable.                                                           *)
(***************************************************************************)
NoCall(op) == [op |-> op, detections |-> <<>>, frameNumber |-> <<>>, timestamp |-> 0]

\* what `before` keeps of a state
Entry(w) == [objectHistory |-> w.objectHistory, nextTrackingId |-> w.nextTrackingId,
             lastFrameTimestamp |-> w.lastFrameTimestamp, call |-> w.call, issued |-> w.issued]

\* the tracks of a map that are older than 3 at a timestamp
OlderThanGap(hist, timestamp) ==
    {hist[i].value.trackingId : i \in {j \in 1..Len(hist) : timestamp - hist[j].value.lastSeen > 3}}

Report(trackedObjects) ==
    {[trackingId |-> trackedObjects[i].trackingId, class |-> trackedObjects[i].class,
      bbox |-> trackedObjects[i].bbox] : i \in 1..Len(trackedObjects)}

\* the module's state when it is loaded (lines 33-35)
Fresh ==
    [objectHistory |-> <<>>, nextTrackingId |-> 1, lastFrameTimestamp |-> 0,
     call |-> NoCall("new"), result |-> <<>>,
     before |-> [objectHistory |-> <<>>, nextTrackingId |-> 1, lastFrameTimestamp |-> 0,
                 call |-> NoCall("new"), issued |-> {}],
     idLog |-> <<>>, issued |-> {}, retired |-> {}, frames |-> <<>>]


\* updateMotionTracking(detections, frameNumber), lines 167-234
AfterUpdate(w, detections, frameNumber) ==
    LET timestamp == Timestamp(frameNumber, w.lastFrameTimestamp)
    IN The({[objectHistory |-> done.hist,
             nextTrackingId |-> done.nextId,
             lastFrameTimestamp |-> CounterAfter(frameNumber, w.lastFrameTimestamp),
             call |-> [op |-> "update", detections |-> detections, frameNumber |-> frameNumber,
                       timestamp |-> timestamp],
             result |-> done.trackedObjects,
             before |-> Entry(w),
             idLog |-> w.idLog \o done.created,
             issued |-> w.issued \cup Report(done.trackedObjects),
             retired |-> w.retired \cup OlderThanGap(w.objectHistory, timestamp),
             frames |-> Append(w.frames, [timestamp |-> timestamp,
                                          detections |-> Len(detections),
                                          given |-> frameNumber # <<>>])]
            : done \in {RunUpdate(w.objectHistory, w.nextTrackingId, detections, timestamp)}})

\* mutant: the map is not cleared
AfterReset_NoClear(w) ==
    [objectHistory |-> w.objectHistory, nextTrackingId |-> 1, lastFrameTimestamp |-> 0,
     call |-> NoCall("reset"), result |-> <<>>, before |-> Entry(w),
     idLog |-> <<>>, issued |-> w.issued, retired |-> {}, frames |-> <<>>]

\* mutant: the identity counter is not reset
AfterReset_KeepCounter(w) ==
    [objectHistory |-> <<>>, nextTrackingId |-> w.nextTrackingId, lastFrameTimestamp |-> 0,
     call |-> NoCall("reset"), result |-> <<>>, before |-> Entry(w),
     idLog |-> <<>>, issued |-> w.issued, retired |-> {}, frames |-> <<>>]

\* resetMotionTracking(), lines 239-243
AfterReset(w) ==
    [objectHistory |-> <<>>, nextTrackingId |-> 1, lastFrameTimestamp |-> 0,
     call |-> NoCall("reset"), result |-> <<>>, before |-> Entry(w),
     idLog |-> <<>>, issued |-> w.issued, retired |-> {}, frames |-> <<>>]

AfterSnapshot_OnlySeen(w) ==
    [objectHistory |-> w.objectHistory, nextTrackingId |-> w.nextTrackingId,
     lastFrameTimestamp |-> w.lastFrameTimestamp,
     call |-> NoCall("snapshot"),
     result |-> SelectSeq(MapValues(w.objectHistory),
                          LAMBDA history : history.lastSeen = w.lastFrameTimestamp),
     before |-> Entry(w),
     idLog |-> w.idLog, issued |-> w.issued, retired |-> w.retired, frames |-> w.frames]

\* getAllTrackedObjects(), lines 248-250
AfterSnapshot(w) ==
    [objectHistory |-> w.objectHistory, nextTrackingId |-> w.nextTrackingId,
     lastFrameTimestamp |-> w.lastFrameTimestamp,
     call |-> NoCall("snapshot"), result |-> MapValues(w.objectHistory), before |-> Entry(w),
     idLog |-> w.idLog, issued |-> w.issued, retired |-> w.retired, frames |-> w.frames]

(***************************************************************************)
(* Detections and frame numbers the callers pass.                          *)
(***************************************************************************)
Box(x, y, w, h) == [x |-> x, y |-> y, width |-> w, height |-> h]
Det(class, bbox, confidence) == [class |-> class, bbox |-> bbox, confidence |-> confidence]

DetA == Det("car", Box(0, 0, 10, 10), 90)      \* a car
DetB == Det("car", Box(3, 3, 10, 10), 80)      \* the same car moved by 30% of its size on both axes
DetC == Det("person", Box(0, 0, 10, 10), 90)   \* a person exactly where the car is
DetZ == Det("car", Box(0, 0, 0, 10), 50)       \* a car whose box has zero area

DetP == Det("car", Box(0, 0, 40, 40), 90)     \* a large car
DetQ == Det("car", Box(10, 0, 40, 40), 90)    \* the large car 10 to the right: IoU 3/5
DetR == Det("car", Box(16, 0, 40, 40), 90)    \* the large car 16 to the right: IoU 3/7
DetK == Det("car", Box(0, 0, 26, 10), 90)     \* a wide car
DetL == Det("car", Box(14, 0, 26, 10), 90)    \* a second wide car: IoU with DetK exactly 3/10
DetM == Det("car", Box(7, 0, 26, 10), 70)     \* a wide car half way between DetK and DetL
DetN == Det("car", Box(10, 0, 26, 10), 70)    \* a wide car nearer to DetL than to DetK

Detections == {DetA, DetC}
Boxes ==
    {Box(x, y, w, h) : x \in 0..MaxCentre, y \in 0..MaxCentre, w \in 1..MaxSide, h \in 1..MaxSide}
MotionDetections == {DetP, DetQ}
JumpDetections == {DetP, DetR}
BestDetections == {DetM, DetN}
MoveDetections == {DetB, DetZ}
LongDetections == {DetA, DetB}
FrameNumbers == {0, 4, 5}

SeqsUpTo(S, k) == UNION {[1..m -> S] : m \in 0..k}
FrameNumberArgs == {<<>>} \cup {<<f>> : f \in FrameNumbers}
FewFrameNumberArgs == {<<>>, <<4>>}

\* A running session: the tracker after k frames showing the car DetA and the person DetC,
\* passed without frame numbers.
RECURSIVE Established(_)
Established(k) ==
    IF k = 0 THEN Fresh
    ELSE The({AfterUpdate(w, <<DetA, DetC>>, <<>>) : w \in {Established(k - 1)}})

\* A car in motion: the tracker after k frames showing the large car, to the right in the
\* odd frames (DetQ) and back in the even ones (DetP), passed without frame numbers.
RECURSIVE Moved(_)
Moved(k) ==
    IF k = 0 THEN Fresh
    ELSE The({AfterUpdate(w, IF k % 2 = 1 THEN <<DetQ>> ELSE <<DetP>>, <<>>)
              : w \in {Moved(k - 1)}})

\* A car at rest: the tracker after k frames showing the large car in one place, passed
\* without frame numbers.
RECURSIVE Still(_)
Still(k) ==
    IF k = 0 THEN Fresh
    ELSE The({AfterUpdate(w, <<DetP>>, <<>>) : w \in {Still(k - 1)}})

\* Two cars side by side: the tracker after k frames showing the wide cars DetK and DetL,
\* passed without frame numbers.
RECURSIVE Paired(_)
Paired(k) ==
    IF k = 0 THEN Fresh
    ELSE The({AfterUpdate(w, <<DetK, DetL>>, <<>>) : w \in {Paired(k - 1)}})

(***************************************************************************)
(* The tracker.                                                            *)
(***************************************************************************)
Now ==
    [objectHistory |-> objectHistory, nextTrackingId |-> nextTrackingId,
     lastFrameTimestamp |-> lastFrameTimestamp, call |-> call, result |-> result,
     before |-> before, idLog |-> idLog, issued |-> issued, retired |-> retired,
     frames |-> frames]

StartsAs(w) ==
    /\ objectHistory = w.objectHistory
    /\ nextTrackingId = w.nextTrackingId
    /\ lastFrameTimestamp = w.lastFrameTimestamp
    /\ call = w.call
    /\ result = w.result
    /\ before = w.before
    /\ idLog = w.idLog
    /\ issued = w.issued
    /\ retired = w.retired
    /\ frames = w.frames
    /\ calls = 0

Becomes(w) ==
    /\ objectHistory' = w.objectHistory
    /\ nextTrackingId' = w.nextTrackingId
    /\ lastFrameTimestamp' = w.lastFrameTimestamp
    /\ call' = w.call
    /\ result' = w.result
    /\ before' = w.before
    /\ idLog' = w.idLog
    /\ issued' = w.issued
    /\ retired' = w.retired
    /\ frames' = w.frames
    /\ calls' = calls + 1

Init == \E k \in 0..MaxSeen : \E w \in {Established(k)} : StartsAs(w)

InitLong == \E k \in 0..MaxWarm : \E w \in {Established(k)} : StartsAs(w)

InitMotion == \E k \in 0..MaxMoved : \E w \in {Moved(k)} : StartsAs(w)

InitJump == \E k \in 0..MaxStill : \E w \in {Still(k)} : StartsAs(w)

InitBest == \E k \in 0..MaxSeen : \E w \in {Paired(k)} : StartsAs(w)

\* two boxes about to be passed to calculateIoU
InitIoU ==
    \E box1 \in Boxes, box2 \in Boxes :
        StartsAs([Fresh EXCEPT !.call = [op |-> "boxes", box1 |-> box1, box2 |-> box2]])

updateMotionTracking(detections, frameNumber) ==
    \E now \in {Now} : \E w \in {AfterUpdate(now, detections, frameNumber)} : Becomes(w)

resetMotionTracking == \E w \in {AfterReset(Now)} : Becomes(w)

getAllTrackedObjects == \E w \in {AfterSnapshot(Now)} : Becomes(w)

Update ==
    /\ calls < MaxCalls
    /\ \E detections \in SeqsUpTo(Detections, MaxDets), frameNumber \in FrameNumberArgs :
          updateMotionTracking(detections, frameNumber)

UpdateMove ==
    /\ calls < MaxCalls
    /\ \E detections \in SeqsUpTo(MoveDetections, MaxDets), frameNumber \in FrameNumberArgs :
          updateMotionTracking(detections, frameNumber)

UpdateUnnumbered ==
    /\ calls < MaxCalls
    /\ \E detections \in SeqsUpTo(MoveDetections, MaxDets) :
          updateMotionTracking(detections, <<>>)
UpdateLong ==
    /\ calls < MaxCalls
    /\ \E detections \in SeqsUpTo(LongDetections, MaxDets) :
          updateMotionTracking(detections, <<>>)

UpdateMotion ==
    /\ calls < MaxCalls
    /\ \E detections \in SeqsUpTo(MotionDetections, MaxDets), frameNumber \in FewFrameNumberArgs :
          updateMotionTracking(detections, frameNumber)

UpdateMotionUnnumbered ==
    /\ calls < MaxCalls
    /\ \E detections \in SeqsUpTo(MotionDetections, MaxDets) :
          updateMotionTracking(detections, <<>>)
UpdateJump ==
    /\ calls < MaxCalls
    /\ \E detections \in SeqsUpTo(JumpDetections, MaxDets) :
          updateMotionTracking(detections, <<>>)

UpdateBest ==
    /\ calls < MaxCalls
    /\ \E detections \in SeqsUpTo(BestDetections, MaxDets), frameNumber \in FewFrameNumberArgs :
          updateMotionTracking(detections, frameNumber)

\* calculateIoU(box1, box2), on its own
MeasureIoU ==
    /\ call.op = "boxes"
    /\ call' = [call EXCEPT !.op = "calculateIoU"]
    /\ result' = calculateIoU(call.box1, call.box2)
    /\ calls' = calls + 1
    /\ UNCHANGED <<objectHistory, nextTrackingId, lastFrameTimestamp, before, idLog, issued,
                   retired, frames>>

Reset == calls < MaxCalls /\ resetMotionTracking

Snapshot == calls < MaxCalls /\ getAllTrackedObjects

\* the car and the person, with and without frame numbers
Next == Update \/ Reset \/ Snapshot
Spec == Init /\ [][Next]_vars

\* the car moving, and the car with a box of zero area
NextMove == UpdateMove \/ Reset \/ Snapshot
SpecMove == Init /\ [][NextMove]_vars

\* the car moving, and the car with a box of zero area, without frame numbers
NextUnnumbered == UpdateUnnumbered \/ Reset \/ Snapshot
SpecUnnumbered == Init /\ [][NextUnnumbered]_vars
\* long sessions without frame numbers
NextLong == UpdateLong \/ Reset \/ Snapshot
SpecLong == InitLong /\ [][NextLong]_vars

\* a large car moving to and fro, with frame numbers that repeat or go back
NextMotion == UpdateMotion \/ Reset \/ Snapshot
SpecMotion == InitMotion /\ [][NextMotion]_vars

\* a large car moving to and fro, without frame numbers
NextMotionUnnumbered == UpdateMotionUnnumbered \/ Reset \/ Snapshot
SpecMotionUnnumbered == InitMotion /\ [][NextMotionUnnumbered]_vars
\* a large car at rest that jumps once
NextJump == UpdateJump \/ Reset \/ Snapshot
SpecJump == InitJump /\ [][NextJump]_vars

\* several cars within reach of one detection
NextBest == UpdateBest \/ Reset \/ Snapshot
SpecBest == InitBest /\ [][NextBest]_vars

\* calculateIoU applied to every pair of small boxes
NextIoU == MeasureIoU
SpecIoU == InitIoU /\ [][NextIoU]_vars

(***************************************************************************)
(* Vocabulary of the claims.                                               *)
(***************************************************************************)
IsUpdate == call.op = "update"
IsSnapshot == call.op = "snapshot"
IsAfterReset == before.call.op = "reset"
Range(seq) == {seq[i] : i \in 1..Len(seq)}
ResultIds == {result[i].trackingId : i \in 1..Len(result)}
Classes == {"car", "person"}
LastPos(history) == history.positions[Len(history.positions)]
PositiveArea(bbox) == bbox.width > 0 /\ bbox.height > 0
SameCentre(bbox, pos) == bbox.x = pos.x /\ bbox.y = pos.y
TracksBefore == 1..Len(before.objectHistory)
TrackBefore(j) == before.objectHistory[j].value
Gap(j) == call.timestamp - TrackBefore(j).lastSeen

(***************************************************************************)
(* C1.  Within one updateMotionTracking call no track absorbs more than    *)
(* one detection: no two entries of the returned list carry the same       *)
(* trackingId.  (Violated: findBestMatch never reads matchedHistoryIds.)   *)
(***************************************************************************)
C1_OneDetectionPerTrack ==
    IsUpdate => \A i, j \in 1..Len(result) : i # j => result[i].trackingId # result[j].trackingId

(***************************************************************************)
(* C2.  Identity stability.  The case: the table held exactly one track j  *)
(* of class c, the frame holds exactly one detection i of class c, its     *)
(* centre is within 30% of its width and of its height of the track's last *)
(* position, and the frame gap is at most 3.                               *)
(***************************************************************************)
C2_Case(c, j, i) ==
    /\ IsUpdate
    /\ {k \in TracksBefore : TrackBefore(k).class = c} = {j}
    /\ {k \in 1..Len(call.detections) : call.detections[k].class = c} = {i}
    /\ 10 * Abs(call.detections[i].bbox.x - LastPos(TrackBefore(j)).x) <= 3 * call.detections[i].bbox.width
    /\ 10 * Abs(call.detections[i].bbox.y - LastPos(TrackBefore(j)).y) <= 3 * call.detections[i].bbox.height
    /\ Gap(j) <= 3

\* C2 as stated: in that case the detection is reported under the track's trackingId.
C2_IdentityStable_AnyBox ==
    \A c \in Classes : \A j \in TracksBefore : \A i \in 1..Len(call.detections) :
        C2_Case(c, j, i) => result[i].trackingId = TrackBefore(j).trackingId

\* C2 amended: the same, for a detection whose box has positive width and height.
C2_IdentityStable ==
    \A c \in Classes : \A j \in TracksBefore : \A i \in 1..Len(call.detections) :
        (C2_Case(c, j, i) /\ PositiveArea(call.detections[i].bbox))
            => result[i].trackingId = TrackBefore(j).trackingId

\* C2 witness: the object moved by 30% on both axes and kept its id.
C2_Witness ==
    \E c \in Classes : \E j \in TracksBefore : \E i \in 1..Len(call.detections) :
        /\ C2_Case(c, j, i)
        /\ PositiveArea(call.detections[i].bbox)
        /\ ~SameCentre(call.detections[i].bbox, LastPos(TrackBefore(j)))
        /\ result[i].trackingId = TrackBefore(j).trackingId
        /\ result[i].framesTracked = 2

(***************************************************************************)
(* C3.  No resurrection: once an update finds a track older than 3 (now or *)
(* in an earlier call since the last reset), its trackingId appears in no  *)
(* output, neither of that update nor of any later update or snapshot.     *)
(***************************************************************************)
C3_NoResurrection ==
    (IsUpdate \/ IsSnapshot) => retired \cap ResultIds = {}

\* C3 witness: a detection at the last position of a track that is too old gets a new id.
C3_Witness ==
    /\ IsUpdate
    /\ \E j \in TracksBefore : \E i \in 1..Len(call.detections) :
        /\ Gap(j) > 3
        /\ call.detections[i].class = TrackBefore(j).class
        /\ PositiveArea(call.detections[i].bbox)
        /\ SameCentre(call.detections[i].bbox, LastPos(TrackBefore(j)))
        /\ result[i].trackingId # TrackBefore(j).trackingId
        /\ TrackBefore(j).trackingId \in retired

(***************************************************************************)
(* C4.  Eviction is exact: an update with effective timestamp t removes a  *)
(* track that was in the table iff t - lastSeen > 3; a track at gap 3 is   *)
(* kept and a detection on its last position still matches a track; a      *)
(* snapshot removes nothing.                                               *)
(***************************************************************************)
C4_EvictionExact ==
    /\ IsUpdate => \A j \in TracksBefore :
          /\ (before.objectHistory[j].key \notin Keys(objectHistory)) <=> (Gap(j) > 3)
          /\ (/\ Gap(j) <= 3
              /\ call.detections # <<>>
              /\ call.detections[1].class = TrackBefore(j).class
              /\ PositiveArea(call.detections[1].bbox)
              /\ SameCentre(call.detections[1].bbox, LastPos(TrackBefore(j))))
             => result[1].trackingId \in Keys(before.objectHistory)
    /\ IsSnapshot => Keys(objectHistory) = Keys(before.objectHistory)

\* C4 witness: a track at gap exactly 3 is kept and matched by the first detection.
C4_Witness ==
    /\ IsUpdate
    /\ \E j \in TracksBefore :
        /\ Gap(j) = 3
        /\ before.objectHistory[j].key \in Keys(objectHistory)
        /\ call.detections # <<>>
        /\ result[1].trackingId = TrackBefore(j).trackingId
        /\ result[1].framesTracked = 2

(***************************************************************************)
(* C5.  Between resets trackingIds are given out in strictly increasing    *)
(* order, hence never twice, also after the earlier track was evicted.     *)
(***************************************************************************)
C5_IdsIncrease ==
    \A i, j \in 1..Len(idLog) : i < j => idLog[i] < idLog[j]

\* C5 witness: a track is created in a call after the first track was retired.
C5_Witness ==
    /\ IsUpdate
    /\ Len(idLog) >= 2
    /\ idLog[1] \in retired
    /\ idLog[Len(idLog)] >= before.nextTrackingId
    /\ idLog[Len(idLog)] \in Keys(objectHistory)

(***************************************************************************)
(* C6.  Reset scenario.  The case: the first update after a reset holds a  *)
(* detection i whose class and box an update reported before the reset.    *)
(***************************************************************************)
C6_Case(i) ==
    /\ IsUpdate
    /\ IsAfterReset
    /\ \E r \in before.issued : r.class = result[i].class /\ r.bbox = result[i].bbox

\* C6 as stated: its trackingId was not assigned to any track before the reset.
C6_BrandNewId ==
    \A i \in 1..Len(result) :
        C6_Case(i) => result[i].trackingId \notin {r.trackingId : r \in before.issued}

\* C6 amended: it is reported under a track created in this call, all of whose positions
\* are of this call; the numbering restarts, so the first detection of the call gets id 1.
C6_NewTrackRestartedIds ==
    \A i \in 1..Len(result) :
        C6_Case(i) =>
            /\ result[i].trackingId \in Range(idLog)
            /\ result[i].trackingId \in 1..Len(call.detections)
            /\ \A p \in Range(ValueOf(objectHistory, result[i].trackingId).positions) :
                  p.timestamp = call.timestamp
            /\ i = 1 => (result[i].trackingId = 1 /\ result[i].framesTracked = 1)

\* C6 witness: several tracks were established, and track-1 is given out again.
C6_Witness ==
    /\ result # <<>>
    /\ C6_Case(1)
    /\ Cardinality({r.trackingId : r \in before.issued}) >= 2
    /\ result[1].trackingId \in {r.trackingId : r \in before.issued}

(***************************************************************************)
(* C7.  resetMotionTracking returns the tracker to its initial state, and  *)
(* the update that follows returns what it returns on a fresh tracker.     *)
(***************************************************************************)
C7_ResetIsInitial ==
    /\ call.op = "reset" =>
          /\ objectHistory = <<>>
          /\ nextTrackingId = 1
          /\ lastFrameTimestamp = 0
    /\ (IsUpdate /\ IsAfterReset) =>
          /\ call.timestamp = Timestamp(call.frameNumber, 0)
          /\ result = RunUpdate(<<>>, 1, call.detections, call.timestamp).trackedObjects

\* C7 witness: a reset of a tracker that held tracks and had both counters advanced.
C7_Witness ==
    /\ call.op = "reset"
    /\ before.objectHistory # <<>>
    /\ before.nextTrackingId > 1
    /\ before.lastFrameTimestamp > 0

(***************************************************************************)
(* C8.  An update returns one entry per detection, in input order: entry i *)
(* carries class, bbox and confidence of detection i unchanged, plus       *)
(* isMoving, velocity, trackingId, framesTracked and lastSeen, and         *)
(* lastSeen is the call's effective timestamp.                             *)
(***************************************************************************)
C8_OnePerDetection ==
    IsUpdate =>
        /\ Len(result) = Len(call.detections)
        /\ \A i \in 1..Len(result) :
              /\ result[i].class = call.detections[i].class
              /\ result[i].bbox = call.detections[i].bbox
              /\ result[i].confidence = call.detections[i].confidence
              /\ result[i].lastSeen = call.timestamp
              /\ DOMAIN result[i] = {"class", "bbox", "confidence", "isMoving", "velocity",
                                     "trackingId", "framesTracked", "lastSeen"}

\* C8 witness: two different detections, one matched and one new, at a timestamp the caller gave.
C8_Witness ==
    /\ IsUpdate
    /\ Len(result) = 2
    /\ call.detections[1] # call.detections[2]
    /\ result[1].framesTracked = 2
    /\ result[2].framesTracked = 1
    /\ call.frameNumber # <<>>

(***************************************************************************)
(* C9.  Bounded history: every track holds between 1 and 10 positions, and *)
(* every framesTracked reported is between 1 and 10 and is the number of   *)
(* positions the track holds right after that detection was processed.     *)
(***************************************************************************)
C9_AfterDetection(i) ==
    RunUpdate(before.objectHistory, before.nextTrackingId, SubSeq(call.detections, 1, i),
              call.timestamp)

\* C9: positions per track and framesTracked per entry stay within 1..10, and framesTracked
\* is the track's position count right after its detection.
C9_BoundedHistory ==
    /\ \A j \in 1..Len(objectHistory) : Len(objectHistory[j].value.positions) \in 1..10
    /\ IsUpdate => \A i \in 1..Len(result) :
          /\ result[i].framesTracked \in 1..10
          /\ result[i].framesTracked =
                Len(ValueOf(C9_AfterDetection(i).hist, result[i].trackingId).positions)

\* C9 witness: a track that held 10 positions absorbs a detection and drops its oldest one.
C9_Witness ==
    /\ IsUpdate
    /\ \E j \in TracksBefore : \E i \in 1..Len(result) :
        /\ Len(TrackBefore(j).positions) = 10
        /\ result[i].trackingId = TrackBefore(j).trackingId
        /\ result[i].framesTracked = 10
        /\ ValueOf(objectHistory, result[i].trackingId).positions[1] # TrackBefore(j).positions[1]

(***************************************************************************)
(* C10.  No cross-class matching: every entry's trackingId belongs to a    *)
(* track of the detection's class, in the table after the call and, when   *)
(* the track existed before the call, in the table before it.              *)
(***************************************************************************)
C10_NoCrossClass ==
    IsUpdate => \A i \in 1..Len(result) :
        /\ result[i].trackingId \in Keys(objectHistory)
        /\ ValueOf(objectHistory, result[i].trackingId).class = call.detections[i].class
        /\ \A j \in TracksBefore :
              TrackBefore(j).trackingId = result[i].trackingId
                  => TrackBefore(j).class = call.detections[i].class

\* C10 witness: a detection exactly on a live track of another class starts a new track.
C10_Witness ==
    /\ IsUpdate
    /\ call.detections # <<>>
    /\ \E j \in TracksBefore :
        /\ Gap(j) <= 3
        /\ TrackBefore(j).class # call.detections[1].class
        /\ PositiveArea(call.detections[1].bbox)
        /\ SameCentre(call.detections[1].bbox, LastPos(TrackBefore(j)))
        /\ MatchIoU(TrackBefore(j), call.detections[1]) = [n |-> 400, d |-> 400]
    /\ result[1].framesTracked = 1
    /\ result[1].trackingId \notin Keys(before.objectHistory)

(***************************************************************************)
(* Vocabulary of the claims about single detections.                       *)
(*                                                                         *)
(* Steps is the run of the loop of the observed call, one loop state per   *)
(* detection processed: of a run `steps`, TableIn(steps, i) is the track   *)
(* table right after the i-th detection (i = 0: right after the clean-up)  *)
(* and CounterIn(steps, i) the identity counter at that point.  The        *)
(* overlap of a detection with a track is the area its box shares with    *)
(* the same box centred on the track's last position; as both boxes have   *)
(* the detection's size, their IoU is overlap / (2 * area - overlap), so   *)
(* it exceeds 3/10 exactly when 13 * overlap > 6 * area.                   *)
(***************************************************************************)
RECURSIVE StepsFrom(_, _, _)
StepsFrom(st, detections, timestamp) ==
    IF detections = <<>> THEN <<st>>
    ELSE The({<<st>> \o StepsFrom(next, Tail(detections), timestamp)
              : next \in {TrackOne(st, Head(detections), timestamp)}})
Steps ==
    StepsFrom(RunUpdate(before.objectHistory, before.nextTrackingId, <<>>, call.timestamp),
              call.detections, call.timestamp)
TableIn(steps, i) == steps[i + 1].hist
CounterIn(steps, i) == steps[i + 1].nextId
Area(bbox) == bbox.width * bbox.height
Overlap(history, detection) ==
    Max(0, detection.bbox.width - Abs(detection.bbox.x - LastPos(history).x))
    * Max(0, detection.bbox.height - Abs(detection.bbox.y - LastPos(history).y))
Candidate(history, detection) ==
    /\ history.class = detection.class
    /\ 13 * Overlap(history, detection) > 6 * Area(detection.bbox)
Candidates(table, detection) ==
    {j \in 1..Len(table) : Candidate(table[j].value, detection)}
ZeroVelocity == [x |-> [n |-> 0, d |-> 1], y |-> [n |-> 0, d |-> 1]]

(***************************************************************************)
(* C11.  A detection that matches no track of the table it meets adds      *)
(* exactly one track to that table and changes no other: the new track     *)
(* has the counter's value as its id, an id no track of the table has, the *)
(* detection's centre at the call's timestamp as its only position, the    *)
(* detection's class, and lastSeen equal to the timestamp; the entry       *)
(* returned for the detection has that id, isMoving false, velocity        *)
(* {0, 0} and framesTracked 1.                                             *)
(***************************************************************************)
C11_NewTrack ==
    IsUpdate => \A steps \in {Steps} : \A i \in 1..Len(result) :
        Candidates(TableIn(steps, i - 1), call.detections[i]) = {} =>
            LET old == TableIn(steps, i - 1)
                new == TableIn(steps, i)
                detection == call.detections[i]
                history == new[Len(new)].value
            IN /\ Len(new) = Len(old) + 1
               /\ SubSeq(new, 1, Len(old)) = old
               /\ new[Len(new)].key = history.trackingId
               /\ history.trackingId = CounterIn(steps, i - 1)
               /\ history.trackingId \notin Keys(old)
               /\ history.positions = <<[x |-> detection.bbox.x, y |-> detection.bbox.y,
                                         timestamp |-> call.timestamp]>>
               /\ history.class = detection.class
               /\ history.lastSeen = call.timestamp
               /\ result[i].trackingId = history.trackingId
               /\ result[i].isMoving = FALSE
               /\ result[i].velocity = ZeroVelocity
               /\ result[i].framesTracked = 1

\* C11 witness: the second detection of a call meets a table that holds tracks, none of
\* them a candidate, and a track is added for it.
C11_Witness ==
    /\ IsUpdate
    /\ Len(result) = 2
    /\ \E old \in {TableIn(Steps, 1)} :
          /\ old # <<>>
          /\ Candidates(old, call.detections[2]) = {}
          /\ Len(objectHistory) = Len(old) + 1
    /\ result[2].framesTracked = 1

(***************************************************************************)
(* Vocabulary of the claims about motion.  PositionsIn(steps, i) is the    *)
(* position list of the track the i-th entry names, right after the i-th   *)
(* detection.  A step is straight when it runs along one axis; its          *)
(* Euclidean length is then the absolute difference on that axis.          *)
(***************************************************************************)
PositionsIn(steps, i) == ValueOf(TableIn(steps, i), result[i].trackingId).positions
LastFive(positions) ==
    SubSeq(positions, Max(1, Len(positions) - 4), Len(positions))
Straight(positions) ==
    \A k \in 2..Len(positions) :
        positions[k].x = positions[k - 1].x \/ positions[k].y = positions[k - 1].y
RECURSIVE PathLength(_, _)
PathLength(positions, k) ==
    IF k > Len(positions) THEN 0
    ELSE Abs(positions[k].x - positions[k - 1].x) + Abs(positions[k].y - positions[k - 1].y)
         + PathLength(positions, k + 1)

(***************************************************************************)
(* C12.  Every entry returned with framesTracked below 3 has isMoving      *)
(* false.                                                                  *)
(***************************************************************************)
C12_MovingNeedsThree ==
    IsUpdate => \A i \in 1..Len(result) :
        result[i].framesTracked < 3 => result[i].isMoving = FALSE

\* C12 witness: the second position of a track lies 10 from the first, twice the
\* threshold, and the entry is not moving.
C12_Witness ==
    /\ IsUpdate
    /\ \E i \in 1..Len(result) :
        /\ result[i].framesTracked = 2
        /\ \E positions \in {PositionsIn(Steps, i)} :
              Len(positions) = 2 /\ PathLength(positions, 2) = 10
        /\ result[i].isMoving = FALSE

(***************************************************************************)
(* C13.  An entry whose track holds at least 3 positions is moving exactly *)
(* when the sum of the distances between consecutive positions among the   *)
(* last 5 exceeds 5 times the number of those distances; no older position *)
(* counts.  (Stated for tracks whose last 5 positions are joined by        *)
(* straight steps, which is every track of SpecMotion.)                    *)
(***************************************************************************)
C13_MovingIffAverageAboveFive ==
    IsUpdate => \A steps \in {Steps} : \A i \in 1..Len(result) :
      \A positions \in {PositionsIn(steps, i)} :
        LET recent == LastFive(positions)
        IN Len(positions) >= 3 =>
            /\ Straight(recent)
            /\ result[i].isMoving <=> PathLength(recent, 2) > 5 * (Len(recent) - 1)

\* C13 witness: a track of 6 positions whose last 5 average exactly 5 and whose oldest
\* step, of 10, would lift the average above 5 if it counted; the entry is not moving.
C13_Witness ==
    /\ IsUpdate
    /\ \E steps \in {Steps} : \E i \in 1..Len(result) :
      \E positions \in {PositionsIn(steps, i)} :
        /\ Len(positions) = 6
        /\ PathLength(LastFive(positions), 2) = 20
        /\ PathLength(positions, 2) = 30
        /\ result[i].isMoving = FALSE

(***************************************************************************)
(* Vocabulary of the claims about velocity.  The velocity of an entry is   *)
(* a pair of fractions; it is the displacement over a divisor when, on     *)
(* each axis, numerator * divisor = displacement * denominator.            *)
(***************************************************************************)
Current(positions) == positions[Len(positions)]
Previous(positions) == positions[Len(positions) - 1]
Elapsed(positions) == Current(positions).timestamp - Previous(positions).timestamp
IsDisplacementOver(velocity, positions, divisor) ==
    /\ divisor # 0
    /\ velocity.x.d # 0
    /\ velocity.y.d # 0
    /\ velocity.x.n * divisor = (Current(positions).x - Previous(positions).x) * velocity.x.d
    /\ velocity.y.n * divisor = (Current(positions).y - Previous(positions).y) * velocity.y.d

\* C14 as claimed: the divisor of every emitted velocity is max(1, current.timestamp -
\* previous.timestamp), also when the two timestamps are equal or out of order.
C14_DivisorAtLeastOne ==
    IsUpdate => \A steps \in {Steps} : \A i \in 1..Len(result) :
      \A positions \in {PositionsIn(steps, i)} :
        Len(positions) >= 2 =>
            IsDisplacementOver(result[i].velocity, positions, Max(1, Elapsed(positions)))

(***************************************************************************)
(* C14, amended.  The divisor of every emitted velocity is the difference  *)
(* current.timestamp - previous.timestamp, replaced by 1 only when that    *)
(* difference is 0: it is never zero, it is max(1, difference) when the    *)
(* timestamps do not decrease, and it is negative when they do.            *)
(***************************************************************************)
C14_DivisorIsDifferenceOrOne ==
    IsUpdate => \A steps \in {Steps} : \A i \in 1..Len(result) :
      \A positions \in {PositionsIn(steps, i)} :
        Len(positions) >= 2 =>
            /\ IsDisplacementOver(result[i].velocity, positions,
                                  IF Elapsed(positions) = 0 THEN 1 ELSE Elapsed(positions))
            /\ Elapsed(positions) >= 0 =>
                  IsDisplacementOver(result[i].velocity, positions,
                                     Max(1, Elapsed(positions)))

\* C14 witness: a track last seen at one timestamp absorbs a detection 10 to its left at
\* an earlier one, and the velocity emitted points to the right.
C14_Witness ==
    /\ IsUpdate
    /\ \E steps \in {Steps} : \E i \in 1..Len(result) :
      \E positions \in {PositionsIn(steps, i)} :
        /\ Len(positions) >= 2
        /\ Elapsed(positions) < 0
        /\ Current(positions).x - Previous(positions).x = -10
        /\ result[i].velocity.x.n > 0
        /\ result[i].velocity.x.d > 0

(***************************************************************************)
(* C15.  The velocity of an entry whose track holds fewer than 2 positions *)
(* is {0, 0}; otherwise, when the last two positions are at least 1 apart  *)
(* in time, it is their displacement divided by that time, on each axis,   *)
(* whatever the older positions are.                                       *)
(***************************************************************************)
C15_VelocityFromLastTwo ==
    IsUpdate => \A steps \in {Steps} : \A i \in 1..Len(result) :
      \A positions \in {PositionsIn(steps, i)} :
        /\ Len(positions) < 2 => result[i].velocity = ZeroVelocity
        /\ (Len(positions) >= 2 /\ Elapsed(positions) >= 1) =>
              IsDisplacementOver(result[i].velocity, positions, Elapsed(positions))

\* C15 witness: a track that went right, left and right again, one frame apart each time,
\* has velocity {10, 0}; measured from its first position it would have none.
C15_Witness ==
    /\ IsUpdate
    /\ \E steps \in {Steps} : \E i \in 1..Len(result) :
      \E positions \in {PositionsIn(steps, i)} :
        /\ Len(positions) >= 3
        /\ Elapsed(positions) = 1
        /\ Current(positions).x - Previous(positions).x = 10
        /\ Current(positions).x = positions[1].x
        /\ result[i].velocity = [x |-> [n |-> 10, d |-> 1], y |-> [n |-> 0, d |-> 1]]

(***************************************************************************)
(* C16.  getAllTrackedObjects changes neither the track table nor the two  *)
(* counters, and returns the tracks of the table, all of them and nothing  *)
(* else, in the table's order.                                             *)
(***************************************************************************)
C16_SnapshotReadOnly ==
    IsSnapshot =>
        /\ objectHistory = before.objectHistory
        /\ nextTrackingId = before.nextTrackingId
        /\ lastFrameTimestamp = before.lastFrameTimestamp
        /\ Len(result) = Len(objectHistory)
        /\ \A j \in 1..Len(objectHistory) :
              /\ result[j] = objectHistory[j].value
              /\ result[j].trackingId = objectHistory[j].key

\* C16 witness: the snapshot follows a frame that matched one track and left another
\* alone, and holds both.
C16_Witness ==
    /\ IsSnapshot
    /\ before.call.op = "update"
    /\ \E j, k \in 1..Len(result) :
        /\ result[j].lastSeen = before.call.timestamp
        /\ Len(result[j].positions) >= 2
        /\ result[k].lastSeen < before.call.timestamp

(***************************************************************************)
(* C17.  Every call of updateMotionTracking returns a list, one entry per  *)
(* detection, and leaves no track without a position (the one value a      *)
(* later call dereferences, at lines 92-95).  A call with an empty list    *)
(* returns an empty list, keeps the identity counter, keeps exactly the    *)
(* tracks seen at most 3 timestamps ago, unchanged and in order, and       *)
(* advances the timestamp counter by one when no frame number was passed   *)
(* and not at all otherwise.                                               *)
(***************************************************************************)
C17_NeverFailsEmptyIsQuiet ==
    IsUpdate =>
        /\ Len(result) = Len(call.detections)
        /\ \A j \in 1..Len(objectHistory) : objectHistory[j].value.positions # <<>>
        /\ call.detections = <<>> =>
              /\ result = <<>>
              /\ objectHistory =
                    SelectSeq(before.objectHistory,
                              LAMBDA e : call.timestamp - e.value.lastSeen <= 3)
              /\ nextTrackingId = before.nextTrackingId
              /\ lastFrameTimestamp =
                    IF call.frameNumber = <<>> THEN before.lastFrameTimestamp + 1
                    ELSE before.lastFrameTimestamp

\* C17 witness: an empty frame with a frame number of its own evicts one track and keeps
\* another.
C17_Witness ==
    /\ IsUpdate
    /\ call.detections = <<>>
    /\ call.frameNumber # <<>>
    /\ result = <<>>
    /\ Len(objectHistory) > 0
    /\ Len(objectHistory) < Len(before.objectHistory)

(***************************************************************************)
(* C18.  A detection whose box has width 0 or height 0 is given the id of  *)
(* no track of the table it meets: a track is added for it, under the      *)
(* counter's value, and its entry has framesTracked 1.                     *)
(***************************************************************************)
C18_ZeroAreaStartsTrack ==
    IsUpdate => \A steps \in {Steps} : \A i \in 1..Len(result) :
        ~PositiveArea(call.detections[i].bbox) =>
            /\ result[i].trackingId \notin Keys(TableIn(steps, i - 1))
            /\ result[i].trackingId = CounterIn(steps, i - 1)
            /\ Len(TableIn(steps, i)) = Len(TableIn(steps, i - 1)) + 1
            /\ result[i].framesTracked = 1

\* C18 witness: a detection of width 0 lies exactly on the last position of a track of
\* its class seen one timestamp ago, and starts a track of its own.
C18_Witness ==
    /\ IsUpdate
    /\ \E i \in 1..Len(result) : \E table \in {TableIn(Steps, i - 1)} :
      \E j \in 1..Len(table) :
        /\ call.detections[i].bbox.width = 0
        /\ table[j].value.class = call.detections[i].class
        /\ call.timestamp - table[j].value.lastSeen = 1
        /\ SameCentre(call.detections[i].bbox, LastPos(table[j].value))
        /\ result[i].trackingId \notin Keys(table)
        /\ result[i].framesTracked = 1

(***************************************************************************)
(* C19.  Each detection is matched with the live track of its class whose  *)
(* IoU with it is highest, provided that IoU exceeds 3/10, and with the    *)
(* earliest-created of several such tracks; it is matched with no track    *)
(* when no IoU exceeds 3/10, one of exactly 3/10 included.  (For one       *)
(* detection the IoU grows with the overlap, the boxes compared having     *)
(* the same size; ids grow with the time of creation.)                     *)
(***************************************************************************)
LiveCandidates(table, detection) ==
    {j \in Candidates(table, detection) : call.timestamp - table[j].value.lastSeen <= 3}
IsBest(table, detection, j) ==
    \A k \in LiveCandidates(table, detection) :
        \/ Overlap(table[j].value, detection) > Overlap(table[k].value, detection)
        \/ /\ Overlap(table[j].value, detection) = Overlap(table[k].value, detection)
           /\ table[j].key <= table[k].key
C19_BestMatch ==
    IsUpdate => \A steps \in {Steps} : \A i \in 1..Len(result) :
      \A table \in {TableIn(steps, i - 1)} :
        LET detection == call.detections[i]
        IN IF LiveCandidates(table, detection) = {}
           THEN result[i].trackingId \notin Keys(table)
           ELSE \E j \in LiveCandidates(table, detection) :
                   /\ IsBest(table, detection, j)
                   /\ result[i].trackingId = table[j].key

\* C19 witness: a detection half way between two tracks of its class, with the same IoU
\* above 3/10 for both, takes the id of the one created first.
C19_Witness ==
    /\ IsUpdate
    /\ \E steps \in {Steps} : \E i \in 1..Len(result) :
      \E table \in {TableIn(steps, i - 1)} :
        LET detection == call.detections[i]
        IN \E j, k \in LiveCandidates(table, detection) :
              /\ table[j].key < table[k].key
              /\ Overlap(table[j].value, detection) = Overlap(table[k].value, detection)
              /\ result[i].trackingId = table[j].key

\* the other cases of C19: an IoU of exactly 3/10 with the only track of the class
C19_ExactlyAtThreshold ==
    /\ IsUpdate
    /\ \E steps \in {Steps} : \E i \in 1..Len(result) :
      \E table \in {TableIn(steps, i - 1)} :
        LET detection == call.detections[i]
        IN /\ Len(table) = 1
           /\ table[1].value.class = detection.class
           /\ 13 * Overlap(table[1].value, detection) = 6 * Area(detection.bbox)
           /\ Area(detection.bbox) > 0
           /\ result[i].trackingId \notin Keys(table)

\* and a later-created track whose IoU is higher than that of an earlier candidate
C19_LaterButHigher ==
    /\ IsUpdate
    /\ \E steps \in {Steps} : \E i \in 1..Len(result) :
      \E table \in {TableIn(steps, i - 1)} :
        LET detection == call.detections[i]
        IN \E j, k \in LiveCandidates(table, detection) :
              /\ table[j].key < table[k].key
              /\ Overlap(table[j].value, detection) < Overlap(table[k].value, detection)
              /\ result[i].trackingId = table[k].key

(***************************************************************************)
(* C20.  When the two detections of a call each have the same track of the *)
(* table as their only live candidate, the first is given that track's id  *)
(* and the second a new track: an id no track of the table had, not the    *)
(* first entry's id, with framesTracked 1.  (Violated: the second is       *)
(* appended to the same track, as findBestMatch never reads                *)
(* matchedHistoryIds.)                                                     *)
(***************************************************************************)
C20_Contested(table, j) ==
    /\ Len(result) = 2
    /\ LiveCandidates(table, call.detections[1]) = {j}
    /\ LiveCandidates(table, call.detections[2]) = {j}
C20_FirstInOrderWins ==
    IsUpdate => \A table \in {TableIn(Steps, 0)} : \A j \in 1..Len(table) :
        C20_Contested(table, j) => result[1].trackingId = table[j].key
C20_FirstWinsOtherIsNew ==
    IsUpdate => \A table \in {TableIn(Steps, 0)} : \A j \in 1..Len(table) :
        C20_Contested(table, j) =>
            /\ result[1].trackingId = table[j].key
            /\ result[2].trackingId \notin Keys(table)
            /\ result[2].trackingId # result[1].trackingId
            /\ result[2].framesTracked = 1

(***************************************************************************)
(* C21.  A detection given the id of a track of the table it meets changes *)
(* that track and no other: the table keeps its keys and their order, the  *)
(* other tracks are as they were, and the matched track keeps its id and   *)
(* class, has the detection's centre at the call's timestamp as its last   *)
(* position, one position more than before but no more than 10, and        *)
(* lastSeen equal to the timestamp; the entry's framesTracked is the       *)
(* track's position count.                                                 *)
(***************************************************************************)
C21_Appended(o, n, detection) ==
    /\ n.trackingId = o.trackingId
    /\ n.class = o.class
    /\ LastPos(n) = [x |-> detection.bbox.x, y |-> detection.bbox.y,
                     timestamp |-> call.timestamp]
    /\ n.lastSeen = call.timestamp
    /\ Len(n.positions) = Min(10, Len(o.positions) + 1)
C21_MatchChangesOneTrack ==
    IsUpdate => \A steps \in {Steps} : \A i \in 1..Len(result) :
        LET old == TableIn(steps, i - 1)
            new == TableIn(steps, i)
        IN result[i].trackingId \in Keys(old) =>
            /\ Len(new) = Len(old)
            /\ \A j \in 1..Len(old) :
                  /\ new[j].key = old[j].key
                  /\ IF old[j].key = result[i].trackingId
                     THEN /\ C21_Appended(old[j].value, new[j].value, call.detections[i])
                          /\ result[i].framesTracked = Len(new[j].value.positions)
                     ELSE new[j] = old[j]

\* C21 witness: a detection matches a track of 10 positions in a table of two tracks.
C21_Witness ==
    /\ IsUpdate
    /\ \E steps \in {Steps} : \E i \in 1..Len(result) :
        /\ Len(TableIn(steps, i - 1)) = 2
        /\ result[i].trackingId \in Keys(TableIn(steps, i - 1))
        /\ Len(ValueOf(TableIn(steps, i - 1), result[i].trackingId).positions) = 10
        /\ result[i].framesTracked = 10

(***************************************************************************)
(* C22.  A track's positions are the most recent 10, at most, of the       *)
(* centres it absorbed, in the order it absorbed them: a new track holds   *)
(* the centre of the detection that created it, and each detection matched *)
(* to a track leaves it with the most recent 10 of its former positions    *)
(* followed by the detection's centre, so that an 11th position drops the  *)
(* oldest one and no other.  In SpecLong, where timestamps grow from call  *)
(* to call, the positions of every track are in the order of their         *)
(* timestamps.                                                             *)
(***************************************************************************)
MostRecentTen(positions) == SubSeq(positions, Max(1, Len(positions) - 9), Len(positions))
C22_FifoHistory ==
    /\ \A j \in 1..Len(objectHistory) : \A k \in 2..Len(objectHistory[j].value.positions) :
          objectHistory[j].value.positions[k - 1].timestamp
              <= objectHistory[j].value.positions[k].timestamp
    /\ IsUpdate => \A steps \in {Steps} : \A i \in 1..Len(result) :
          LET old == TableIn(steps, i - 1)
              centre == [x |-> call.detections[i].bbox.x, y |-> call.detections[i].bbox.y,
                         timestamp |-> call.timestamp]
          IN ValueOf(TableIn(steps, i), result[i].trackingId).positions =
                IF result[i].trackingId \in Keys(old)
                THEN MostRecentTen(Append(ValueOf(old, result[i].trackingId).positions, centre))
                ELSE <<centre>>

\* C22 witness: a track holding 10 positions absorbs an 11th and holds its former 2nd to
\* 10th positions followed by the new one.
C22_Witness ==
    /\ IsUpdate
    /\ \E steps \in {Steps} : \E i \in 1..Len(result) :
        /\ result[i].trackingId \in Keys(TableIn(steps, i - 1))
        /\ \E held \in {ValueOf(TableIn(steps, i - 1), result[i].trackingId).positions} :
              /\ Len(held) = 10
              /\ held[1] # held[2]
              /\ SubSeq(ValueOf(TableIn(steps, i), result[i].trackingId).positions, 1, 9)
                    = Tail(held)

(***************************************************************************)
(* C23.  calculateIoU agrees with intersection / (areaA + areaB -          *)
(* intersection) for boxes of positive area given by centre and size.      *)
(* The reference counts cells: on the grid of half units the box of centre *)
(* (x, y), width w and height h covers the cells (u, v) with               *)
(* 2x - w <= u < 2x + w and 2y - h <= v < 2y + h; the IoU of two boxes is  *)
(* the number of cells in both over the number of cells in either.  The    *)
(* result is within 0..1, 1 for identical boxes, 0 for boxes that share no *)
(* cell, and 1/3 for two squares side by side that overlap by half their   *)
(* width.                                                                  *)
(***************************************************************************)
CellsOf(bbox) ==
    {<<u, v>> : u \in (2 * bbox.x - bbox.width)..(2 * bbox.x + bbox.width - 1),
                v \in (2 * bbox.y - bbox.height)..(2 * bbox.y + bbox.height - 1)}
HalfOverlapping(box1, box2) ==
    /\ box1.width = box1.height /\ box2 = [box1 EXCEPT !.x = box1.x + 1]
    /\ box1.width = 2
C23_IoUIsReference ==
    call.op = "calculateIoU" =>
        LET both == Cardinality(CellsOf(call.box1) \cap CellsOf(call.box2))
            either == Cardinality(CellsOf(call.box1) \cup CellsOf(call.box2))
        IN /\ result.d > 0
           /\ result.n * either = both * result.d
           /\ result.n >= 0
           /\ result.n <= result.d
           /\ call.box1 = call.box2 => result.n = result.d
           /\ both = 0 => result.n = 0
           /\ HalfOverlapping(call.box1, call.box2) => 3 * result.n = result.d

\* C23 witness: the 2 x 2 square and the same square one to the right (unit squares
\* overlapping by half their width, at twice the scale) have IoU 8/24.
C23_Witness ==
    /\ call.op = "calculateIoU"
    /\ call.box1 = Box(0, 0, 2, 2)
    /\ call.box2 = Box(1, 0, 2, 2)
    /\ result = [n |-> 8, d |-> 24]

\* C23, further cases reached: boxes apart on both axes
C23_ApartOnBothAxes ==
    /\ call.op = "calculateIoU"
    /\ call.box1 = Box(0, 0, 1, 1)
    /\ call.box2 = Box(2, 2, 1, 1)
    /\ result.n = 0

(***************************************************************************)
(* Vocabulary of C25.  The window of a track is its last 5 positions; it   *)
(* holds a single jump when exactly one of its steps leaves the place, and *)
(* that jump's length is then the length of the whole path.                *)
(***************************************************************************)
Jumps(recent) ==
    {k \in 2..Len(recent) : recent[k].x # recent[k - 1].x \/ recent[k].y # recent[k - 1].y}
SingleJump(positions) ==
    /\ Len(positions) >= 3
    /\ Cardinality(Jumps(LastFive(positions))) = 1
    /\ Straight(LastFive(positions))

\* C25 as claimed: an entry whose track's window holds a single jump is not moving,
\* whatever the length of the jump.
C25_OneJumpNeverMoving ==
    IsUpdate => \A steps \in {Steps} : \A i \in 1..Len(result) :
        SingleJump(PositionsIn(steps, i)) => result[i].isMoving = FALSE

(***************************************************************************)
(* C25, amended.  An entry whose track's window holds a single jump is     *)
(* moving exactly when the jump is longer than 5 times the number of steps *)
(* of the window: a jump of 10 or less never counts, one of more than 10   *)
(* does in a track of 3 positions, of more than 15 in a track of 4, of     *)
(* more than 20 in a track of 5 or more.                                   *)
(***************************************************************************)
C25_OneJumpMovingIffLong ==
    IsUpdate => \A steps \in {Steps} : \A i \in 1..Len(result) :
      \A positions \in {PositionsIn(steps, i)} :
        SingleJump(positions) =>
            LET recent == LastFive(positions)
            IN /\ result[i].isMoving <=> PathLength(recent, 2) > 5 * (Len(recent) - 1)
               /\ PathLength(recent, 2) <= 10 => result[i].isMoving = FALSE
               /\ (PathLength(recent, 2) > 10 /\ Len(recent) = 3) => result[i].isMoving

\* C25 witness: a track at rest for 3 frames jumps by 16 in its 4th, and is moving.
C25_Witness ==
    /\ IsUpdate
    /\ \E steps \in {Steps} : \E i \in 1..Len(result) :
      \E positions \in {PositionsIn(steps, i)} :
        /\ Len(positions) = 4
        /\ SingleJump(positions)
        /\ PathLength(positions, 2) = 16
        /\ positions[4].x # positions[3].x
        /\ result[i].isMoving

\* C25, the other side: the same jump at the end of a full window is not moving
C25_SmoothedInFullWindow ==
    /\ IsUpdate
    /\ \E steps \in {Steps} : \E i \in 1..Len(result) :
      \E positions \in {PositionsIn(steps, i)} :
        /\ Len(positions) = 5
        /\ SingleJump(positions)
        /\ PathLength(positions, 2) = 16
        /\ ~result[i].isMoving

(***************************************************************************)
(* C26.  The entry returned for the i-th detection of a call is the entry  *)
(* the same call would return for it had the list ended there: its         *)
(* trackingId, framesTracked, velocity and isMoving depend on the tracker  *)
(* at entry, the timestamp and the first i detections only.                *)
(***************************************************************************)
C26_LaterDetectionsChangeNothing ==
    IsUpdate => \A i \in 1..Len(result) :
        \A alone \in {C9_AfterDetection(i).trackedObjects[i]} :
            /\ result[i].trackingId = alone.trackingId
            /\ result[i].framesTracked = alone.framesTracked
            /\ result[i].velocity = alone.velocity
            /\ result[i].isMoving = alone.isMoving

\* C26 witness: the second detection of a call is matched to the track of the first and
\* lengthens it, and the first entry still counts the positions the track had without it.
C26_Witness ==
    /\ IsUpdate
    /\ Len(result) = 2
    /\ result[1].trackingId = result[2].trackingId
    /\ result[1].framesTracked >= 2
    /\ result[1].framesTracked < Len(ValueOf(objectHistory, result[1].trackingId).positions)
    /\ result[1].framesTracked = C9_AfterDetection(1).trackedObjects[1].framesTracked

(***************************************************************************)
(* C27.  A track of the table at entry that the call neither evicts (it    *)
(* was seen at most 3 timestamps ago) nor matches (no entry carries its    *)
(* id) is in the table after the call with the same id, class, positions   *)
(* and lastSeen, under the same key; and the tracks the call does not      *)
(* evict follow one another in the table as they did before the call.      *)
(***************************************************************************)
C27_Survives(j) == Gap(j) <= 3
C27_UntouchedTracksUnchanged ==
    IsUpdate =>
        /\ \A j \in TracksBefore :
              (C27_Survives(j) /\ TrackBefore(j).trackingId \notin ResultIds) =>
                  /\ before.objectHistory[j].key \in Keys(objectHistory)
                  /\ ValueOf(objectHistory, before.objectHistory[j].key) = TrackBefore(j)
        /\ \A j, k \in TracksBefore :
              (j < k /\ C27_Survives(j) /\ C27_Survives(k)) =>
                  IndexOfKey(objectHistory, before.objectHistory[j].key)
                      < IndexOfKey(objectHistory, before.objectHistory[k].key)

\* C27 witness: of two tracks one is matched and the other, seen 2 timestamps ago, is
\* neither matched nor evicted; it is still the second track of the table, as it was.
C27_Witness ==
    /\ IsUpdate
    /\ Len(before.objectHistory) = 2
    /\ TrackBefore(1).trackingId \in ResultIds
    /\ TrackBefore(2).trackingId \notin ResultIds
    /\ Gap(2) = 2
    /\ Len(objectHistory) >= 2
    /\ objectHistory[2].value = TrackBefore(2)

(***************************************************************************)
(* C28.  In every state, every track's lastSeen is the timestamp of its    *)
(* last position, and every track is stored under its trackingId.          *)
(***************************************************************************)
C28_LastSeenIsLastPosition ==
    \A j \in 1..Len(objectHistory) :
        /\ objectHistory[j].value.positions # <<>>
        /\ objectHistory[j].value.lastSeen = LastPos(objectHistory[j].value).timestamp
        /\ objectHistory[j].key = objectHistory[j].value.trackingId

\* C28 witness: a track created at one timestamp has absorbed a detection passed with
\* frame number 4, next to a track that has not.
C28_Witness ==
    /\ IsUpdate
    /\ call.frameNumber = <<4>>
    /\ \E j, k \in 1..Len(objectHistory) :
        /\ Len(objectHistory[j].value.positions) >= 2
        /\ objectHistory[j].value.positions[1].timestamp # 4
        /\ objectHistory[j].value.lastSeen = 4
        /\ objectHistory[k].value.lastSeen # 4

(***************************************************************************)
(* C24.  Since construction or the last reset, the k-th update call made   *)
(* without a frame number runs with timestamp k and leaves the timestamp   *)
(* counter at k, whatever calls with frame numbers came in between; the    *)
(* timestamps of the calls without frame numbers therefore increase.       *)
(***************************************************************************)
Unnumbered == {k \in 1..Len(frames) : ~frames[k].given}
C24_CounterCountsUnnumberedCalls ==
    /\ \A k, l \in Unnumbered : k < l => frames[k].timestamp < frames[l].timestamp
    /\ \A k \in Unnumbered :
          frames[k].timestamp = Cardinality({l \in Unnumbered : l <= k})
    /\ (IsUpdate /\ call.frameNumber = <<>>) =>
          /\ call.timestamp = Cardinality(Unnumbered)
          /\ lastFrameTimestamp = Cardinality(Unnumbered)
          /\ call.timestamp = before.lastFrameTimestamp + 1

\* C24 witness: the third call without a frame number runs with timestamp 3.
C24_Witness ==
    /\ IsUpdate
    /\ call.frameNumber = <<>>
    /\ Len(frames) = 3
    /\ Unnumbered = {1, 2, 3}
    /\ call.timestamp = 3

\* C24, on a tracker that was reset: the first call without a frame number runs with 1
C24_FirstAfterReset ==
    /\ IsUpdate
    /\ IsAfterReset
    /\ call.frameNumber = <<>>
    /\ call.timestamp = 1

(***************************************************************************)
(* C29.  An update call made with a frame number, 0 included, runs with    *)
(* that number as its timestamp and leaves the timestamp counter as it     *)
(* was; the next call without a frame number runs with the counter plus    *)
(* one, which may be less than the timestamp of the call before it.        *)
(***************************************************************************)
C29_FrameNumberLeavesCounter ==
    IsUpdate =>
        /\ call.frameNumber # <<>> =>
              /\ call.timestamp = call.frameNumber[1]
              /\ lastFrameTimestamp = before.lastFrameTimestamp
        /\ (call.frameNumber = <<>> /\ before.call.op = "update"
                /\ before.call.frameNumber # <<>>) =>
              /\ call.timestamp = before.lastFrameTimestamp + 1
              /\ lastFrameTimestamp = before.lastFrameTimestamp + 1

\* C29 witness: after one frame without a number and one with frame number 5, a call
\* without a frame number runs with timestamp 2.
C29_Witness ==
    /\ IsUpdate
    /\ call.frameNumber = <<>>
    /\ before.call.op = "update"
    /\ before.call.frameNumber = <<5>>
    /\ before.call.timestamp = 5
    /\ call.timestamp = 2

\* C29, frame number 0: the call runs with timestamp 0 and the counter stays
C29_FrameNumberZero ==
    /\ IsUpdate
    /\ call.frameNumber = <<0>>
    /\ call.timestamp = 0
    /\ lastFrameTimestamp = 1

(***************************************************************************)
(* C30.  While the timestamps of the update calls made since construction  *)
(* or the last reset have not decreased, the table an update call with     *)
(* timestamp t leaves holds only tracks with 0 <= t - lastSeen <= 3, no    *)
(* more tracks than detections were passed in the calls with timestamps in *)
(* t - 3 .. t, and no more new tracks than the call had detections.        *)
(***************************************************************************)
Ordered == \A k \in 2..Len(frames) : frames[k - 1].timestamp <= frames[k].timestamp
RECURSIVE DetectionsWithin(_, _, _)
DetectionsWithin(k, lo, hi) ==
    IF k > Len(frames) THEN 0
    ELSE (IF frames[k].timestamp \in lo..hi THEN frames[k].detections ELSE 0)
         + DetectionsWithin(k + 1, lo, hi)
C30_TableBounded ==
    (IsUpdate /\ Ordered) =>
        /\ \A j \in 1..Len(objectHistory) :
              call.timestamp - objectHistory[j].value.lastSeen \in 0..3
        /\ Len(objectHistory) <= DetectionsWithin(1, call.timestamp - 3, call.timestamp)
        /\ Cardinality(Keys(objectHistory) \ Keys(before.objectHistory))
              <= Len(call.detections)

\* C30 witness: at timestamp 5, after frames 1 and 2, the track last seen at 1 is gone
\* and the one last seen at 2 is kept.
C30_Witness ==
    /\ IsUpdate
    /\ Ordered
    /\ call.timestamp = 5
    /\ Len(frames) = 3
    /\ \E j \in TracksBefore : TrackBefore(j).lastSeen = 1
    /\ \E j \in 1..Len(objectHistory) : objectHistory[j].value.lastSeen = 2
    /\ \A j \in 1..Len(objectHistory) : objectHistory[j].value.lastSeen >= 2

====
